---- MODULE Spec2Model ----
(***************************************************************************)
(* Model of the report aggregation and rendering engine of BugForgeX       *)
(* (SecureChain/src/report/generator.rs).                                  *)
(*                                                                         *)
(* Text is modelled as a sequence of chunks.  One chunk is one push_str /  *)
(* format! call of the source: the format string literal together with the *)
(* tuple of the values substituted into it (numbers already formatted as   *)
(* strings).  The emoji icons of the source are written as ASCII names and *)
(* the code fence as ~~~, because the TLA+ lexer rejects those characters. *)
(*                                                                         *)
(* Option<T> is modelled as a sequence of length 0 (None) or 1 (Some).     *)
(* HashMap<String, usize> is modelled as a function with a finite domain.  *)
(***************************************************************************)
EXTENDS Integers, Sequences, FiniteSets, TLC

(***************************************************************************)
(* Bounds of the input families.                                           *)
(***************************************************************************)
MaxKeyLen == 7
MaxSevLen == 3
MaxCatLen == 3
MaxMixLen == 2
MaxRecs == 2

(***************************************************************************)
(* Labels.                                                                 *)
(***************************************************************************)
\* the severity strings the code compares against
TriggerSeverities == {"Critical", "High", "Medium", "Low"}
\* the five recognized severity labels of the data model
RecognizedSeverities == TriggerSeverities \cup {"Informational"}
\* severity is a free String in the input; "critical" is an unrecognized one
Severities == RecognizedSeverities \cup {"critical"}
KeySeverities == {"Critical", "High"}
MixSeverities == {"Critical", "critical"}

\* variants of VulnerabilityCategory, by their Debug name
TableCategories == {"Reentrancy", "AccessControl", "IntegerOverflow", "UnhandledExceptions"}
Categories == TableCategories \cup {"TimestampDependence", "Other"}
MixCategories == {"Reentrancy", "Other"}

Tools == {"slither", "mythril"}

\* format selectors handed to generate_comprehensive_report
Formats == {"markdown", "html", "json", "pdf", "xml", "Markdown"}

\* values uuid::Uuid::new_v4() may return
Uuids == {"uuid-a", "uuid-b"}
\* value Utc::now() returns, already formatted
Now == "2024-01-01 00:00:00 UTC"

RedCircle == "red-circle"
OrangeCircle == "orange-circle"
YellowCircle == "yellow-circle"
GreenCircle == "green-circle"
BlueCircle == "blue-circle"

(***************************************************************************)
(* Generic helpers.                                                        *)
(***************************************************************************)
None == <<>>
Some(v) == <<v>>
IsSome(o) == Len(o) = 1
Unwrap(o) == o[1]

Ok(v) == [ok |-> TRUE, val |-> v]
Err(e) == [ok |-> FALSE, val |-> e]

\* one format!/push_str call: the literal and the substituted values
Chunk(f, a) == [fmt |-> f, args |-> a]

Min(a, b) == IF a < b THEN a ELSE b

\* Iterator::take(n)
Take(s, n) == SubSeq(s, 1, Min(n, Len(s)))

\* format!("{:03}", n): decimal, zero padded to a minimum width of 3
Pad3(n) == IF n < 10 THEN "00" \o ToString(n)
           ELSE IF n < 100 THEN "0" \o ToString(n)
           ELSE ToString(n)

\* format!("{:.2}", x) for x held in hundredths
Fixed2(h) == ToString(h \div 100) \o "." \o (IF h % 100 < 10 THEN "0" ELSE "") \o ToString(h % 100)

(***************************************************************************)
(* Input: Vulnerability, AnalysisResults and the file they are read from.  *)
(***************************************************************************)
\* the i-th finding of an input; a detailed finding carries every optional field
Vulnerability(i, a) ==
    [id |-> "VULN-" \o ToString(i),
     title |-> "Finding " \o ToString(i),
     description |-> "description " \o ToString(i),
     category |-> a.category,
     severity |-> a.severity,
     confidence |-> 85,
     tool |-> a.tool,
     file_path |-> "contracts/Vault.sol",
     line_number |-> IF a.detailed THEN Some(40 + i) ELSE None,
     code_snippet |-> IF a.detailed THEN Some("require(balances[msg.sender] >= amount && amount > 0);") ELSE None,
     recommendation |-> IF a.detailed THEN Some("Use a reentrancy guard") ELSE None,
     references |-> IF a.detailed THEN <<"https://swcregistry.io/">> ELSE <<>>]

\* all finding sequences of length n whose i-th finding has attributes from A
VulnSeqs(n, A) == {[i \in 1..n |-> Vulnerability(i, f[i])] : f \in [1..n -> A]}

Attrs(S, C, T, D) == [severity : S, category : C, tool : T, detailed : D]

RecStrings(n) == [i \in 1..n |-> "General advice " \o ToString(i)]

AnalysisResults(vulns, recs, score) ==
    [contract_name |-> "Vault",
     vulnerabilities |-> vulns,
     recommendations |-> recs,
     metrics |-> [lines_of_code |-> 120, functions_analyzed |-> 9,
                  complexity_score |-> 350, security_score |-> score],
     analysis_summary |-> [tools_used |-> <<"slither", "mythril">>,
                           analysis_duration |-> 1250]]

\* Critical and High findings only, long enough to exceed both caps of the key findings
KeyFamily ==
    {AnalysisResults(v, RecStrings(0), 7250) :
        v \in UNION {VulnSeqs(n, Attrs(KeySeverities, {"Reentrancy"}, {"slither"}, {FALSE})) : n \in 0..MaxKeyLen}}

\* findings over every severity string
SevFamily ==
    {AnalysisResults(v, RecStrings(1), 7250) :
        v \in UNION {VulnSeqs(n, Attrs(Severities, {"AccessControl"}, {"mythril"}, {FALSE})) : n \in 0..MaxSevLen}}

\* findings over every category, with MaxRecs free-text recommendations
CatFamily ==
    {AnalysisResults(v, RecStrings(MaxRecs), 7250) :
        v \in UNION {VulnSeqs(n, Attrs({"High"}, Categories, {"slither"}, {FALSE})) : n \in 0..MaxCatLen}}

\* bare findings of slither and detailed findings of mythril
MixAttrs ==
    Attrs(MixSeverities, MixCategories, {"slither"}, {FALSE})
    \cup Attrs(MixSeverities, MixCategories, {"mythril"}, {TRUE})

\* short sequences that vary severity, category, tool and the optional fields together, with
\* 0..MaxRecs free-text recommendations
MixFamily ==
    UNION {{AnalysisResults(v, RecStrings(r), 9000) :
              v \in UNION {VulnSeqs(n, MixAttrs) : n \in 0..MaxMixLen}}
           : r \in 0..MaxRecs}

Inputs == KeyFamily \cup SevFamily \cup CatFamily \cup MixFamily

\* the artifact at results_path: unreadable, readable but not an AnalysisResults, or a document
Files ==
    {[readable |-> FALSE, parsed |-> None], [readable |-> TRUE, parsed |-> None]}
    \cup {[readable |-> TRUE, parsed |-> Some(r)] : r \in Inputs}

VARIABLES file, pc, format, include_summary, report, outcome

vars == <<file, pc, format, include_summary, report, outcome>>

(***************************************************************************)
(* Finding Aggregator.                                                     *)
(***************************************************************************)
\* HashMap::get(k).unwrap_or(&0)
GetOrZero(m, k) == IF k \in DOMAIN m THEN m[k] ELSE 0

\* mutation: the entry is inserted but an existing one is not incremented
IncrementInsertOnly(m, k) == IF k \in DOMAIN m THEN m ELSE m @@ (k :> 1)

\* *map.entry(k).or_insert(0) += 1
Increment(m, k) == IF k \in DOMAIN m THEN [m EXCEPT ![k] = @ + 1] ELSE m @@ (k :> 1)

\* mutation: a severity outside the known labels is counted under "Informational"
RECURSIVE TallyFromCoercing(_, _, _)
TallyFromCoercing(vulnerabilities, i, acc) ==
    IF i > Len(vulnerabilities) THEN acc
    ELSE LET vuln == vulnerabilities[i]
             severity == IF vuln.severity \in TriggerSeverities THEN vuln.severity ELSE "Informational"
         IN TallyFromCoercing(vulnerabilities, i + 1,
                [category_breakdown |-> Increment(acc.category_breakdown, vuln.category),
                 severity_distribution |-> Increment(acc.severity_distribution, severity),
                 tool_findings |-> Increment(acc.tool_findings, vuln.tool)])

RECURSIVE TallyFrom(_, _, _)
TallyFrom(vulnerabilities, i, acc) ==
    IF i > Len(vulnerabilities) THEN acc
    ELSE LET vuln == vulnerabilities[i]
         IN TallyFrom(vulnerabilities, i + 1,
                [category_breakdown |-> Increment(acc.category_breakdown, vuln.category),
                 severity_distribution |-> Increment(acc.severity_distribution, vuln.severity),
                 tool_findings |-> Increment(acc.tool_findings, vuln.tool)])

create_vulnerability_analysis(vulnerabilities) ==
    LET t == TallyFrom(vulnerabilities, 1,
                [category_breakdown |-> <<>>, severity_distribution |-> <<>>, tool_findings |-> <<>>])
    IN [vulnerabilities |-> vulnerabilities,
        category_breakdown |-> t.category_breakdown,
        severity_distribution |-> t.severity_distribution,
        tool_findings |-> t.tool_findings]

(***************************************************************************)
(* Risk Summarizer.                                                        *)
(***************************************************************************)
\* mutation: Medium is tested before High
OverallRiskLevelMediumFirst(critical_findings, high_risk_findings, medium_risk_findings, low_risk_findings) ==
    IF critical_findings > 0 THEN "Critical"
    ELSE IF medium_risk_findings > 0 THEN "Medium"
    ELSE IF high_risk_findings > 0 THEN "High"
    ELSE IF low_risk_findings > 0 THEN "Low"
    ELSE "Minimal"

\* mutation: the arm for Low is missing
OverallRiskLevelNoLow(critical_findings, high_risk_findings, medium_risk_findings, low_risk_findings) ==
    IF critical_findings > 0 THEN "Critical"
    ELSE IF high_risk_findings > 0 THEN "High"
    ELSE IF medium_risk_findings > 0 THEN "Medium"
    ELSE "Minimal"

\* the match on (critical_findings, high_risk_findings) with its guards
OverallRiskLevel(critical_findings, high_risk_findings, medium_risk_findings, low_risk_findings) ==
    IF critical_findings > 0 THEN "Critical"
    ELSE IF high_risk_findings > 0 THEN "High"
    ELSE IF medium_risk_findings > 0 THEN "Medium"
    ELSE IF low_risk_findings > 0 THEN "Low"
    ELSE "Minimal"

SentinelFinding == "No critical or high-severity vulnerabilities found."

\* mutation: High findings are capped at 3 like Critical ones
extract_key_findings_take3(vulnerabilities) ==
    LET critical_findings == SelectSeq(vulnerabilities, LAMBDA v : v.severity = "Critical")
        high_findings == SelectSeq(vulnerabilities, LAMBDA v : v.severity = "High")
        top_critical == Take(critical_findings, 3)
        top_high == Take(high_findings, 3)
        key_findings ==
            [i \in 1..Len(top_critical) |-> RedCircle \o " Critical: " \o top_critical[i].title]
            \o [i \in 1..Len(top_high) |-> OrangeCircle \o " High: " \o top_high[i].title]
    IN IF key_findings = <<>> THEN <<SentinelFinding>> ELSE key_findings

\* mutation: the sentinel is not substituted for an empty list
extract_key_findings_no_sentinel(vulnerabilities) ==
    LET critical_findings == SelectSeq(vulnerabilities, LAMBDA v : v.severity = "Critical")
        high_findings == SelectSeq(vulnerabilities, LAMBDA v : v.severity = "High")
        top_critical == Take(critical_findings, 3)
        top_high == Take(high_findings, 2)
    IN [i \in 1..Len(top_critical) |-> RedCircle \o " Critical: " \o top_critical[i].title]
       \o [i \in 1..Len(top_high) |-> OrangeCircle \o " High: " \o top_high[i].title]

extract_key_findings(vulnerabilities) ==
    LET critical_findings == SelectSeq(vulnerabilities, LAMBDA v : v.severity = "Critical")
        high_findings == SelectSeq(vulnerabilities, LAMBDA v : v.severity = "High")
        top_critical == Take(critical_findings, 3)
        top_high == Take(high_findings, 2)
        key_findings ==
            [i \in 1..Len(top_critical) |-> RedCircle \o " Critical: " \o top_critical[i].title]
            \o [i \in 1..Len(top_high) |-> OrangeCircle \o " High: " \o top_high[i].title]
    IN IF key_findings = <<>> THEN <<SentinelFinding>> ELSE key_findings

create_executive_summary(results, vulnerability_analysis) ==
    LET critical_findings == GetOrZero(vulnerability_analysis.severity_distribution, "Critical")
        high_risk_findings == GetOrZero(vulnerability_analysis.severity_distribution, "High")
        medium_risk_findings == GetOrZero(vulnerability_analysis.severity_distribution, "Medium")
        low_risk_findings == GetOrZero(vulnerability_analysis.severity_distribution, "Low")
    IN [overall_risk_level |->
            OverallRiskLevel(critical_findings, high_risk_findings, medium_risk_findings, low_risk_findings),
        total_vulnerabilities |-> Len(results.vulnerabilities),
        critical_findings |-> critical_findings,
        high_risk_findings |-> high_risk_findings,
        medium_risk_findings |-> medium_risk_findings,
        low_risk_findings |-> low_risk_findings,
        security_score |-> results.metrics.security_score,
        key_findings |-> extract_key_findings(results.vulnerabilities),
        recommendations_summary |-> Take(results.recommendations, 3)]

(***************************************************************************)
(* Recommendation Synthesizer.                                             *)
(***************************************************************************)
Recommendation(id, title, description, priority, effort, impact, related) ==
    [id |-> id, title |-> title, description |-> description, priority |-> priority,
     effort |-> effort, impact |-> impact, related_vulnerabilities |-> related]

\* mutation: the filter on the category is missing
RelatedVulnsUnfiltered(category, vulnerabilities) ==
    [i \in 1..Len(vulnerabilities) |-> vulnerabilities[i].id]

\* the filter(|v| v.category == *category).map(|v| v.id.clone()) of create_category_recommendation
RelatedVulns(category, vulnerabilities) ==
    LET same == SelectSeq(vulnerabilities, LAMBDA v : v.category = category)
    IN [i \in 1..Len(same) |-> same[i].id]

create_category_recommendation(category, vulnerabilities) ==
    LET related_vulns == RelatedVulns(category, vulnerabilities)
    IN CASE category = "Reentrancy" ->
              Recommendation("REC-001", "Implement Reentrancy Protection",
                  "Use reentrancy guards or checks-effects-interactions pattern to prevent reentrancy attacks.",
                  "High", "Medium", "High", related_vulns)
         [] category = "AccessControl" ->
              Recommendation("REC-002", "Strengthen Access Control",
                  "Implement proper access control mechanisms using role-based permissions.",
                  "High", "High", "High", related_vulns)
         [] category = "IntegerOverflow" ->
              Recommendation("REC-003", "Use Safe Math Operations",
                  "Implement SafeMath library or use Solidity 0.8+ built-in overflow protection.",
                  "Medium", "Low", "Medium", related_vulns)
         [] category = "UnhandledExceptions" ->
              Recommendation("REC-004", "Improve Error Handling",
                  "Implement proper error handling for all external calls and operations.",
                  "Medium", "Medium", "Medium", related_vulns)
         [] OTHER ->
              Recommendation("REC-999", "Address " \o category \o " Issues",
                  "Review and address all " \o category \o " related vulnerabilities.",
                  "Medium", "Medium", "Medium", related_vulns)

\* mutation: processed_categories is not consulted
RECURSIVE CategoryRecommendationsFromNoDedup(_, _, _, _)
CategoryRecommendationsFromNoDedup(vulnerabilities, i, processed_categories, recommendations) ==
    IF i > Len(vulnerabilities) THEN recommendations
    ELSE CategoryRecommendationsFromNoDedup(vulnerabilities, i + 1, processed_categories,
             Append(recommendations,
                    create_category_recommendation(vulnerabilities[i].category, vulnerabilities)))

\* the loop over vulnerabilities with the processed_categories set
RECURSIVE CategoryRecommendationsFrom(_, _, _, _)
CategoryRecommendationsFrom(vulnerabilities, i, processed_categories, recommendations) ==
    IF i > Len(vulnerabilities) THEN recommendations
    ELSE LET vuln == vulnerabilities[i]
             category_key == vuln.category
         IN IF category_key \notin processed_categories
            THEN CategoryRecommendationsFrom(vulnerabilities, i + 1,
                     processed_categories \cup {category_key},
                     Append(recommendations, create_category_recommendation(vuln.category, vulnerabilities)))
            ELSE CategoryRecommendationsFrom(vulnerabilities, i + 1, processed_categories, recommendations)

\* the loop over basic_recommendations.iter().enumerate(); i of the source is i - 1 here
GeneralRecommendations(basic_recommendations) ==
    [i \in 1..Len(basic_recommendations) |->
        Recommendation("REC-" \o Pad3((i - 1) + 100),
            "General Recommendation " \o ToString((i - 1) + 1),
            basic_recommendations[i], "Medium", "Medium", "Medium", <<>>)]

create_recommendations(vulnerabilities, basic_recommendations) ==
    CategoryRecommendationsFrom(vulnerabilities, 1, {}, <<>>)
    \o GeneralRecommendations(basic_recommendations)

(***************************************************************************)
(* Report Assembler.                                                       *)
(***************************************************************************)
create_report_metadata(results, uuid) ==
    [report_id |-> uuid,
     generated_at |-> Now,
     version |-> "0.1.0",
     contract_name |-> results.contract_name,
     analysis_tools |-> results.analysis_summary.tools_used,
     report_type |-> "Security Audit Report"]

create_technical_details(metrics, duration) ==
    [analysis_metrics |-> metrics,
     coverage_report |-> [lines_analyzed |-> metrics.lines_of_code,
                          functions_analyzed |-> metrics.functions_analyzed,
                          coverage_percentage |-> 8500,
                          uncovered_areas |-> <<"External library interactions">>],
     tool_configurations |-> ("slither" :> "Default configuration") @@ ("mythril" :> "Deep analysis mode"),
     analysis_duration |-> duration]

\* [String]::join(sep)
RECURSIVE Join(_, _)
Join(strs, sep) ==
    IF Len(strs) = 0 THEN ""
    ELSE IF Len(strs) = 1 THEN strs[1]
    ELSE strs[1] \o sep \o Join(Tail(strs), sep)

create_appendices(results) ==
    <<[title |-> "Tool Configurations",
       content |-> "Analysis performed using: " \o Join(results.analysis_summary.tools_used, ", "),
       appendix_type |-> "configuration"],
      [title |-> "Analysis Metrics",
       content |-> "Security Score: " \o Fixed2(results.metrics.security_score)
                   \o "\nComplexity Score: " \o Fixed2(results.metrics.complexity_score)
                   \o "\nLines of Code: " \o ToString(results.metrics.lines_of_code),
       appendix_type |-> "metrics"]>>

\* mutation: the placeholder takes the Critical count from the findings
PlaceholderSummaryCounting(results) ==
    [overall_risk_level |-> "Not Calculated",
     total_vulnerabilities |-> Len(results.vulnerabilities),
     critical_findings |-> Len(SelectSeq(results.vulnerabilities, LAMBDA v : v.severity = "Critical")),
     high_risk_findings |-> 0,
     medium_risk_findings |-> 0,
     low_risk_findings |-> 0,
     security_score |-> results.metrics.security_score,
     key_findings |-> <<>>,
     recommendations_summary |-> <<>>]

\* mutation: the placeholder zeroes the total as well
PlaceholderSummaryZeroTotal(results) ==
    [overall_risk_level |-> "Not Calculated",
     total_vulnerabilities |-> 0,
     critical_findings |-> 0,
     high_risk_findings |-> 0,
     medium_risk_findings |-> 0,
     low_risk_findings |-> 0,
     security_score |-> results.metrics.security_score,
     key_findings |-> <<>>,
     recommendations_summary |-> <<>>]

\* the ExecutiveSummary literal of the include_summary = false branch
PlaceholderSummary(results) ==
    [overall_risk_level |-> "Not Calculated",
     total_vulnerabilities |-> Len(results.vulnerabilities),
     critical_findings |-> 0,
     high_risk_findings |-> 0,
     medium_risk_findings |-> 0,
     low_risk_findings |-> 0,
     security_score |-> results.metrics.security_score,
     key_findings |-> <<>>,
     recommendations_summary |-> <<>>]

create_comprehensive_report(results, summary, uuid) ==
    LET metadata == create_report_metadata(results, uuid)
        vulnerability_analysis == create_vulnerability_analysis(results.vulnerabilities)
        recommendations == create_recommendations(results.vulnerabilities, results.recommendations)
        technical_details == create_technical_details(results.metrics, results.analysis_summary.analysis_duration)
        appendices == create_appendices(results)
        executive_summary == IF summary THEN create_executive_summary(results, vulnerability_analysis)
                             ELSE PlaceholderSummary(results)
    IN [metadata |-> metadata,
        executive_summary |-> executive_summary,
        vulnerability_analysis |-> vulnerability_analysis,
        recommendations |-> recommendations,
        technical_details |-> technical_details,
        appendices |-> appendices]

(***************************************************************************)
(* Multi-Format Renderer.                                                  *)
(***************************************************************************)
\* severity.chars().next().unwrap() for the five section names
FirstChar(severity) ==
    CASE severity = "Critical" -> "C"
      [] severity = "High" -> "H"
      [] severity = "Medium" -> "M"
      [] severity = "Low" -> "L"
      [] severity = "Informational" -> "I"

SectionHeaderFmt == "### {} {} Vulnerabilities\n\n"
FindingHeadingFmt == "#### {}.{} {}\n\n"

\* the body of the enumerate() loop of add_vulnerability_section for one finding; i is i + 1 of the source
VulnerabilityEntry(severity, i, vuln) ==
    <<Chunk(FindingHeadingFmt, <<FirstChar(severity), ToString(i), vuln.title>>),
      Chunk("**Description:** {}\n\n", <<vuln.description>>),
      Chunk("**File:** {}\n", <<vuln.file_path>>)>>
    \o (IF IsSome(vuln.line_number)
        THEN <<Chunk("**Line:** {}\n", <<ToString(Unwrap(vuln.line_number))>>)>> ELSE <<>>)
    \o <<Chunk("**Tool:** {}\n", <<vuln.tool>>),
         Chunk("**Confidence:** {:.2}\n\n", <<Fixed2(vuln.confidence)>>)>>
    \o (IF IsSome(vuln.code_snippet)
        THEN <<Chunk("**Code Snippet:**\n", <<>>), Chunk("~~~solidity\n", <<>>),
               Chunk("{}", <<Unwrap(vuln.code_snippet)>>), Chunk("\n~~~\n\n", <<>>)>>
        ELSE <<>>)
    \o (IF IsSome(vuln.recommendation)
        THEN <<Chunk("**Recommendation:** {}\n\n", <<Unwrap(vuln.recommendation)>>)>> ELSE <<>>)
    \o (IF vuln.references # <<>>
        THEN <<Chunk("**References:**\n", <<>>)>>
             \o [r \in 1..Len(vuln.references) |-> Chunk("- {}\n", <<vuln.references[r]>>)]
             \o <<Chunk("\n", <<>>)>>
        ELSE <<>>)
    \o <<Chunk("---\n\n", <<>>)>>

RECURSIVE VulnerabilityEntriesFrom(_, _, _)
VulnerabilityEntriesFrom(severity, vulnerabilities, i) ==
    IF i > Len(vulnerabilities) THEN <<>>
    ELSE VulnerabilityEntry(severity, i, vulnerabilities[i])
         \o VulnerabilityEntriesFrom(severity, vulnerabilities, i + 1)

\* mutation: the early return for an empty group is missing
add_vulnerability_section_no_guard(severity, vulnerabilities, icon) ==
    <<Chunk(SectionHeaderFmt, <<icon, severity>>)>>
    \o VulnerabilityEntriesFrom(severity, vulnerabilities, 1)

\* what add_vulnerability_section appends to markdown
add_vulnerability_section(severity, vulnerabilities, icon) ==
    IF vulnerabilities = <<>> THEN <<>>
    ELSE <<Chunk(SectionHeaderFmt, <<icon, severity>>)>>
         \o VulnerabilityEntriesFrom(severity, vulnerabilities, 1)

\* the loop with the match on vuln.severity.as_str() that fills critical, high, medium, low, info
RECURSIVE GroupBySeverityFrom(_, _, _)
GroupBySeverityFrom(vulnerabilities, i, g) ==
    IF i > Len(vulnerabilities) THEN g
    ELSE LET vuln == vulnerabilities[i]
         IN GroupBySeverityFrom(vulnerabilities, i + 1,
                CASE vuln.severity = "Critical" -> [g EXCEPT !.critical = Append(@, vuln)]
                  [] vuln.severity = "High" -> [g EXCEPT !.high = Append(@, vuln)]
                  [] vuln.severity = "Medium" -> [g EXCEPT !.medium = Append(@, vuln)]
                  [] vuln.severity = "Low" -> [g EXCEPT !.low = Append(@, vuln)]
                  [] OTHER -> [g EXCEPT !.info = Append(@, vuln)])

GroupBySeverity(vulnerabilities) ==
    GroupBySeverityFrom(vulnerabilities, 1,
        [critical |-> <<>>, high |-> <<>>, medium |-> <<>>, low |-> <<>>, info |-> <<>>])

\* the five add_vulnerability_section calls, in the order of the source
VulnerabilitySections(vulnerabilities) ==
    LET g == GroupBySeverity(vulnerabilities)
    IN add_vulnerability_section("Critical", g.critical, RedCircle)
       \o add_vulnerability_section("High", g.high, OrangeCircle)
       \o add_vulnerability_section("Medium", g.medium, YellowCircle)
       \o add_vulnerability_section("Low", g.low, GreenCircle)
       \o add_vulnerability_section("Informational", g.info, BlueCircle)

RECURSIVE RecommendationEntriesFrom(_, _)
RecommendationEntriesFrom(recommendations, i) ==
    IF i > Len(recommendations) THEN <<>>
    ELSE LET rec == recommendations[i]
         IN <<Chunk("### {}. {}\n\n", <<ToString(i), rec.title>>),
              Chunk("**Priority:** {}\n", <<rec.priority>>),
              Chunk("**Effort:** {}\n", <<rec.effort>>),
              Chunk("**Impact:** {}\n\n", <<rec.impact>>),
              Chunk("{}\n\n", <<rec.description>>)>>
            \o RecommendationEntriesFrom(recommendations, i + 1)

RECURSIVE AppendixEntriesFrom(_, _)
AppendixEntriesFrom(appendices, i) ==
    IF i > Len(appendices) THEN <<>>
    ELSE <<Chunk("### {}\n\n", <<appendices[i].title>>),
           Chunk("{}\n\n", <<appendices[i].content>>)>>
         \o AppendixEntriesFrom(appendices, i + 1)

generate_markdown_report(rep) ==
    LET es == rep.executive_summary
        td == rep.technical_details
    IN Ok(
       <<Chunk("# Security Audit Report: {}\n\n", <<rep.metadata.contract_name>>),
         Chunk("**Report ID:** {}\n", <<rep.metadata.report_id>>),
         Chunk("**Generated:** {}\n", <<rep.metadata.generated_at>>),
         Chunk("**Version:** {}\n", <<rep.metadata.version>>),
         Chunk("**Tools Used:** {}\n\n", <<Join(rep.metadata.analysis_tools, ", ")>>),
         Chunk("## Executive Summary\n\n", <<>>),
         Chunk("**Overall Risk Level:** {}\n", <<es.overall_risk_level>>),
         Chunk("**Security Score:** {:.2}/100\n", <<Fixed2(es.security_score)>>),
         Chunk("**Total Vulnerabilities:** {}\n\n", <<ToString(es.total_vulnerabilities)>>),
         Chunk("### Severity Distribution\n\n", <<>>),
         Chunk("- {} Critical: {}\n", <<RedCircle, ToString(es.critical_findings)>>),
         Chunk("- {} High: {}\n", <<OrangeCircle, ToString(es.high_risk_findings)>>),
         Chunk("- {} Medium: {}\n", <<YellowCircle, ToString(es.medium_risk_findings)>>),
         Chunk("- {} Low: {}\n\n", <<GreenCircle, ToString(es.low_risk_findings)>>)>>
       \o (IF es.key_findings # <<>>
           THEN <<Chunk("### Key Findings\n\n", <<>>)>>
                \o [k \in 1..Len(es.key_findings) |-> Chunk("- {}\n", <<es.key_findings[k]>>)]
                \o <<Chunk("\n", <<>>)>>
           ELSE <<>>)
       \o <<Chunk("## Vulnerability Analysis\n\n", <<>>)>>
       \o VulnerabilitySections(rep.vulnerability_analysis.vulnerabilities)
       \o <<Chunk("## Recommendations\n\n", <<>>)>>
       \o RecommendationEntriesFrom(rep.recommendations, 1)
       \o <<Chunk("## Technical Details\n\n", <<>>),
            Chunk("**Analysis Duration:** {:.2} seconds\n", <<Fixed2(td.analysis_duration)>>),
            Chunk("**Lines of Code:** {}\n", <<ToString(td.analysis_metrics.lines_of_code)>>),
            Chunk("**Functions Analyzed:** {}\n", <<ToString(td.analysis_metrics.functions_analyzed)>>),
            Chunk("**Complexity Score:** {:.2}\n\n", <<Fixed2(td.analysis_metrics.complexity_score)>>)>>
       \o (IF rep.appendices # <<>>
           THEN <<Chunk("## Appendices\n\n", <<>>)>> \o AppendixEntriesFrom(rep.appendices, 1)
           ELSE <<>>))

HtmlShellHead == "<!DOCTYPE html><html><head><title>Security Audit Report - {}</title><style>...</style></head><body><pre>"
HtmlShellTail == "</pre></body></html>"

\* the format! of the document shell: the markdown is substituted as it is
generate_html_report(rep) ==
    LET markdown == generate_markdown_report(rep)
    IN IF ~markdown.ok THEN markdown
       ELSE Ok(<<Chunk(HtmlShellHead, <<rep.metadata.contract_name>>)>>
               \o markdown.val
               \o <<Chunk(HtmlShellTail, <<>>)>>)

\* serde_json::to_string_pretty(report): one chunk per serialized field
generate_json_report(rep) ==
    LET es == rep.executive_summary
        va == rep.vulnerability_analysis
    IN Ok(
       <<Chunk("{", <<>>),
         Chunk("\"report_id\": \"{}\"", <<rep.metadata.report_id>>),
         Chunk("\"generated_at\": \"{}\"", <<rep.metadata.generated_at>>),
         Chunk("\"contract_name\": \"{}\"", <<rep.metadata.contract_name>>),
         Chunk("\"overall_risk_level\": \"{}\"", <<es.overall_risk_level>>),
         Chunk("\"total_vulnerabilities\": {}", <<ToString(es.total_vulnerabilities)>>),
         Chunk("\"critical_findings\": {}", <<ToString(es.critical_findings)>>),
         Chunk("\"high_risk_findings\": {}", <<ToString(es.high_risk_findings)>>),
         Chunk("\"medium_risk_findings\": {}", <<ToString(es.medium_risk_findings)>>),
         Chunk("\"low_risk_findings\": {}", <<ToString(es.low_risk_findings)>>),
         Chunk("\"security_score\": {}", <<Fixed2(es.security_score)>>)>>
       \o [k \in 1..Len(es.key_findings) |-> Chunk("\"key_findings\": \"{}\"", <<es.key_findings[k]>>)]
       \o [k \in 1..Len(va.vulnerabilities) |->
              Chunk("\"vulnerability\": {\"id\": \"{}\", \"title\": \"{}\", \"category\": \"{}\", \"severity\": \"{}\", \"tool\": \"{}\"}",
                    <<va.vulnerabilities[k].id, va.vulnerabilities[k].title, va.vulnerabilities[k].category,
                      va.vulnerabilities[k].severity, va.vulnerabilities[k].tool>>)]
       \o [k \in 1..Len(rep.recommendations) |->
              Chunk("\"recommendation\": {\"id\": \"{}\", \"title\": \"{}\"}",
                    <<rep.recommendations[k].id, rep.recommendations[k].title>>)]
       \o <<Chunk("}", <<>>)>>)

generate_pdf_report(rep) == generate_html_report(rep)

\* mutation: an unknown selector falls back to the markdown renderer
RenderFormatDefaulting(fmt, rep) ==
    CASE fmt = "html" -> generate_html_report(rep)
      [] fmt = "json" -> generate_json_report(rep)
      [] fmt = "pdf" -> generate_pdf_report(rep)
      [] OTHER -> generate_markdown_report(rep)

\* the match on format of generate_comprehensive_report
RenderFormat(fmt, rep) ==
    CASE fmt = "markdown" -> generate_markdown_report(rep)
      [] fmt = "html" -> generate_html_report(rep)
      [] fmt = "json" -> generate_json_report(rep)
      [] fmt = "pdf" -> generate_pdf_report(rep)
      [] OTHER -> Err(Chunk("Unsupported report format: {}", <<fmt>>))

\* std::fs::read_to_string(path)? then serde_json::from_str(&content)?
load_analysis_results(f) ==
    IF ~f.readable THEN Err(Chunk("No such file or directory (os error 2)", <<>>))
    ELSE IF ~IsSome(f.parsed) THEN Err(Chunk("expected value at line 1 column 1", <<>>))
    ELSE Ok(Unwrap(f.parsed))

(***************************************************************************)
(* The state machine: one call of generate_comprehensive_report on a file. *)
(***************************************************************************)
Init ==
    /\ file \in Files
    /\ pc = "idle"
    /\ format = ""
    /\ include_summary = FALSE
    /\ report = None
    /\ outcome = None

generate_comprehensive_report(fmt, summary) ==
    /\ pc = "idle"
    /\ pc' = "returned"
    /\ format' = fmt
    /\ include_summary' = summary
    /\ UNCHANGED file
    /\ LET results == load_analysis_results(file)
       IN IF ~results.ok
          THEN /\ report' = None
               /\ outcome' = Some(results)
          ELSE \E uuid \in Uuids :
                  LET rep == create_comprehensive_report(results.val, summary, uuid)
                  IN /\ report' = Some(rep)
                     /\ outcome' = Some(RenderFormat(fmt, rep))

Next == \E fmt \in Formats, summary \in BOOLEAN : generate_comprehensive_report(fmt, summary)

Spec == Init /\ [][Next]_vars

(***************************************************************************)
(* Vocabulary of the properties.                                           *)
(***************************************************************************)
Returned == pc = "returned"
Assembled == Returned /\ IsSome(report)
Results == Unwrap(file.parsed)
Vulns == Results.vulnerabilities
Rep == Unwrap(report)
Summary == Rep.executive_summary
Analysis == Rep.vulnerability_analysis

Range(s) == {s[i] : i \in DOMAIN s}

RECURSIVE MapSum(_)
MapSum(m) ==
    IF DOMAIN m = {} THEN 0
    ELSE LET k == CHOOSE x \in DOMAIN m : TRUE
         IN m[k] + MapSum([x \in DOMAIN m \ {k} |-> m[x]])

\* positions of the findings with a severity in S, a category c
SeverityIdx(S) == {i \in DOMAIN Vulns : Vulns[i].severity \in S}
CategoryIdx(c) == {i \in DOMAIN Vulns : Vulns[i].category = c}

\* the m-th smallest element of a set of positions
NthIndex(I, m) == CHOOSE i \in I : Cardinality({j \in I : j <= i}) = m

\* the categories of the input and the rank of each by first occurrence
InputCategories == {Vulns[i].category : i \in DOMAIN Vulns}
FirstOccurrence(c) == CHOOSE i \in CategoryIdx(c) : \A j \in CategoryIdx(c) : i <= j
CategoryRank(c) == Cardinality({d \in InputCategories : FirstOccurrence(d) <= FirstOccurrence(c)})
CategoryAtRank(j) == CHOOSE c \in InputCategories : CategoryRank(c) = j
NumCategories == Cardinality(InputCategories)

(***************************************************************************)
(* C1.                                                                     *)
(***************************************************************************)
\* a mapping counts every finding once: its keys are the labels that occur, each with its number
\* of occurrences, and the counts add up to the number of findings
CountsOnce(m, label(_)) ==
    /\ DOMAIN m = {label(Vulns[i]) : i \in DOMAIN Vulns}
    /\ \A k \in DOMAIN m : m[k] = Cardinality({i \in DOMAIN Vulns : label(Vulns[i]) = k})
    /\ MapSum(m) = Len(Vulns)

\* C1: in each of category_breakdown, severity_distribution and tool_findings every finding is
\* counted under exactly one key, so each mapping sums to the number of findings and all three
\* are empty for the empty sequence.
C1_TalliesCountEachFindingOnce ==
    Assembled =>
        /\ CountsOnce(Analysis.category_breakdown, LAMBDA v : v.category)
        /\ CountsOnce(Analysis.severity_distribution, LAMBDA v : v.severity)
        /\ CountsOnce(Analysis.tool_findings, LAMBDA v : v.tool)
        /\ (Vulns = <<>> => /\ DOMAIN Analysis.category_breakdown = {}
                            /\ DOMAIN Analysis.severity_distribution = {}
                            /\ DOMAIN Analysis.tool_findings = {})

C1_Witness ==
    /\ Assembled
    /\ Len(Vulns) = 2
    /\ Cardinality(DOMAIN Analysis.tool_findings) = 2
    /\ Cardinality(DOMAIN Analysis.severity_distribution) = 1
    /\ Analysis.severity_distribution["critical"] = 2

(***************************************************************************)
(* C2.                                                                     *)
(***************************************************************************)
DistCount(k) ==
    IF k \in DOMAIN Analysis.severity_distribution THEN Analysis.severity_distribution[k] ELSE 0

\* C2: with the summary computed, overall_risk_level is the highest of Critical, High, Medium,
\* Low whose count in the severity distribution is positive, an absent key counting as zero,
\* and "Minimal" when none is.
C2_RiskLevelByPrecedence ==
    (Assembled /\ include_summary) =>
        /\ DistCount("Critical") > 0 => Summary.overall_risk_level = "Critical"
        /\ (DistCount("Critical") = 0 /\ DistCount("High") > 0) => Summary.overall_risk_level = "High"
        /\ (DistCount("Critical") = 0 /\ DistCount("High") = 0 /\ DistCount("Medium") > 0)
              => Summary.overall_risk_level = "Medium"
        /\ (DistCount("Critical") = 0 /\ DistCount("High") = 0 /\ DistCount("Medium") = 0
              /\ DistCount("Low") > 0) => Summary.overall_risk_level = "Low"
        /\ (DistCount("Critical") = 0 /\ DistCount("High") = 0 /\ DistCount("Medium") = 0
              /\ DistCount("Low") = 0) => Summary.overall_risk_level = "Minimal"

\* one High finding outnumbered by Medium findings, no Critical key in the distribution
C2_Witness ==
    /\ Assembled /\ include_summary
    /\ "Critical" \notin DOMAIN Analysis.severity_distribution
    /\ DistCount("High") = 1
    /\ DistCount("Medium") = 2
    /\ Summary.overall_risk_level = "High"

(***************************************************************************)
(* C3.                                                                     *)
(***************************************************************************)
\* C3 as stated: "Critical" iff some finding is Critical, and "Minimal" iff the sequence is empty
\* or every finding has a severity outside Critical, High, Medium, Low, Informational.
C3_Original ==
    (Assembled /\ include_summary) =>
        /\ Summary.overall_risk_level = "Critical" <=> SeverityIdx({"Critical"}) # {}
        /\ Summary.overall_risk_level = "Minimal" <=> SeverityIdx(RecognizedSeverities) = {}

\* C3 amended: "Critical" iff some finding is Critical, and "Minimal" iff no finding has severity
\* Critical, High, Medium or Low (the sequence is empty or holds only Informational and
\* unrecognized severities).
C3_CriticalAndMinimal ==
    (Assembled /\ include_summary) =>
        /\ Summary.overall_risk_level = "Critical" <=> SeverityIdx({"Critical"}) # {}
        /\ Summary.overall_risk_level = "Minimal" <=> SeverityIdx(TriggerSeverities) = {}

C3_Witness ==
    /\ Assembled /\ include_summary
    /\ SeverityIdx({"Informational"}) # {}
    /\ SeverityIdx({"critical"}) # {}
    /\ Summary.overall_risk_level = "Minimal"

(***************************************************************************)
(* C4 and C5.                                                              *)
(***************************************************************************)
\* the titles at the first n positions of I, in input order, each behind a marker
MarkedTitles(I, n, marker) ==
    [m \in 1..Min(n, Cardinality(I)) |-> marker \o Vulns[NthIndex(I, m)].title]

ExpectedKeyFindings ==
    MarkedTitles(SeverityIdx({"Critical"}), 3, RedCircle \o " Critical: ")
    \o MarkedTitles(SeverityIdx({"High"}), 2, OrangeCircle \o " High: ")

\* C4 as stated: for every finding sequence the key findings are the first min(3, #Critical)
\* Critical titles followed by the first min(2, #High) High titles, at most 5 entries.
C4_Original ==
    (Assembled /\ include_summary) =>
        /\ Summary.key_findings = ExpectedKeyFindings
        /\ Len(Summary.key_findings) <= 5

\* C4 amended: the same for every sequence with a Critical or High finding; for a sequence with
\* neither the list is the single sentinel entry.
C4_KeyFindings ==
    (Assembled /\ include_summary) =>
        /\ SeverityIdx({"Critical", "High"}) # {} => Summary.key_findings = ExpectedKeyFindings
        /\ SeverityIdx({"Critical", "High"}) = {} => Summary.key_findings = <<SentinelFinding>>
        /\ Len(Summary.key_findings) <= 5

\* both caps bite, the list is full and a High finding comes first in the input
C4_Witness ==
    /\ Assembled /\ include_summary
    /\ Cardinality(SeverityIdx({"Critical"})) = 4
    /\ Cardinality(SeverityIdx({"High"})) = 3
    /\ Vulns[1].severity = "High"
    /\ Len(Summary.key_findings) = 5

\* C5 as stated: in every assembled report key_findings has at most 5 entries, is the single
\* sentinel when there is no Critical and no High finding, and is never empty.
C5_Original ==
    Assembled =>
        /\ Len(Summary.key_findings) <= 5
        /\ SeverityIdx({"Critical", "High"}) = {} => Summary.key_findings = <<SentinelFinding>>
        /\ Summary.key_findings # <<>>

\* C5 amended: the same in every report assembled with include_summary = true.
C5_KeyFindingsSentinel ==
    (Assembled /\ include_summary) =>
        /\ Len(Summary.key_findings) <= 5
        /\ SeverityIdx({"Critical", "High"}) = {} => Summary.key_findings = <<SentinelFinding>>
        /\ Summary.key_findings # <<>>

C5_Witness ==
    /\ Assembled /\ include_summary
    /\ Len(Vulns) = 3
    /\ SeverityIdx({"Critical", "High"}) = {}
    /\ Summary.key_findings = <<SentinelFinding>>

(***************************************************************************)
(* C6.                                                                     *)
(***************************************************************************)
\* C6: a report assembled with include_summary = false has risk level "Not Calculated", the four
\* per-severity counts 0, the input's security score, and the vulnerability analysis and the
\* recommendations of the report assembled with include_summary = true.
C6_PlaceholderSummary ==
    (Assembled /\ ~include_summary) =>
        LET withSummary == create_comprehensive_report(Results, TRUE, Rep.metadata.report_id)
        IN /\ Summary.overall_risk_level = "Not Calculated"
           /\ Summary.critical_findings = 0
           /\ Summary.high_risk_findings = 0
           /\ Summary.medium_risk_findings = 0
           /\ Summary.low_risk_findings = 0
           /\ Summary.security_score = Results.metrics.security_score
           /\ Analysis = withSummary.vulnerability_analysis
           /\ Rep.recommendations = withSummary.recommendations

C6_Witness ==
    /\ Assembled /\ ~include_summary
    /\ SeverityIdx({"Critical"}) # {}
    /\ SeverityIdx({"High"}) # {}
    /\ Summary.overall_risk_level = "Not Calculated"
    /\ Summary.security_score = 7250

(***************************************************************************)
(* C7 and C8.                                                              *)
(***************************************************************************)
\* the title of the recommendation record of a category
CategoryTitle(c) == create_category_recommendation(c, <<>>).title

\* the identifiers of the findings at the positions I, in input order
IdsAt(I) == [m \in 1..Cardinality(I) |-> Vulns[NthIndex(I, m)].id]

\* C7: the recommendation list starts with exactly one record per distinct category of the
\* findings, in the order of each category's first occurrence, and every general
\* recommendation comes after them; no findings means no category recommendation.
C7_OneRecommendationPerCategory ==
    Assembled =>
        LET recs == Rep.recommendations
            k == NumCategories
            g == Len(Results.recommendations)
        IN /\ Len(recs) = k + g
           /\ \A j \in 1..k : recs[j].title = CategoryTitle(CategoryAtRank(j))
           /\ \A j \in 1..g : /\ recs[k + j].title = "General Recommendation " \o ToString(j)
                              /\ recs[k + j].description = Results.recommendations[j]
           /\ Vulns = <<>> => Len(recs) = g

\* a category seen twice around another one, ahead of two general recommendations
C7_Witness ==
    /\ Assembled
    /\ Len(Vulns) = 3
    /\ Vulns[1].category = "Other"
    /\ Vulns[2].category = "Reentrancy"
    /\ Vulns[3].category = "Other"
    /\ Len(Results.recommendations) = 2
    /\ Len(Rep.recommendations) = 4

\* C8: related_vulnerabilities of a category recommendation is the identifiers of all findings
\* of that category in input order, every finding's identifier is listed by exactly one category
\* recommendation, and general recommendations list none.
C8_RelatedVulnerabilities ==
    Assembled =>
        LET recs == Rep.recommendations
            k == NumCategories
        IN /\ Len(recs) >= k
           /\ \A j \in 1..k :
                 recs[j].related_vulnerabilities = IdsAt(CategoryIdx(CategoryAtRank(j)))
           /\ \A i \in DOMAIN Vulns :
                 Cardinality({j \in 1..k : Vulns[i].id \in Range(recs[j].related_vulnerabilities)}) = 1
           /\ \A j \in (k + 1)..Len(recs) : recs[j].related_vulnerabilities = <<>>

C8_Witness ==
    /\ Assembled
    /\ Len(Vulns) = 3
    /\ Vulns[1].category = Vulns[3].category
    /\ Vulns[2].category = "TimestampDependence"
    /\ Vulns[1].category = "AccessControl"
    /\ Rep.recommendations[1].related_vulnerabilities = <<Vulns[1].id, Vulns[3].id>>
    /\ Rep.recommendations[2].related_vulnerabilities = <<Vulns[2].id>>
    /\ Rep.recommendations[3].related_vulnerabilities = <<>>

(***************************************************************************)
(* C9.                                                                     *)
(***************************************************************************)
SupportedFormats == {"markdown", "html", "json", "pdf"}
Outcome == Unwrap(outcome)

\* C9 as stated: a call with a format selector outside markdown, html, json, pdf returns an error
\* whose message contains the selector, and never an artifact.
C9_Original ==
    (Returned /\ format \notin SupportedFormats) =>
        /\ ~Outcome.ok
        /\ format \in Range(Outcome.val.args)

\* C9 amended: such a call returns an error and never an artifact, and when the input was loaded
\* the error is the unsupported-format error carrying the selector.
C9_UnsupportedFormat ==
    (Returned /\ format \notin SupportedFormats) =>
        /\ ~Outcome.ok
        /\ load_analysis_results(file).ok =>
              /\ Outcome.val.fmt = "Unsupported report format: {}"
              /\ Outcome.val.args = <<format>>

C9_Witness ==
    /\ Returned
    /\ format = "Markdown"
    /\ IsSome(report)
    /\ Vulns # <<>>
    /\ ~Outcome.ok
    /\ Outcome.val.args = <<"Markdown">>

(***************************************************************************)
(* C10.                                                                    *)
(***************************************************************************)
MarkdownRendered == Returned /\ format = "markdown" /\ Outcome.ok
Markdown == Outcome.val

\* the positions of the findings displayed in a group
GroupIdx(g) ==
    IF g = "Informational" THEN DOMAIN Vulns \ SeverityIdx(TriggerSeverities) ELSE SeverityIdx({g})

\* header and finding headings of a group, nothing for a group without findings
ExpectedGroup(g, icon, letter) ==
    IF GroupIdx(g) = {} THEN <<>>
    ELSE <<Chunk(SectionHeaderFmt, <<icon, g>>)>>
         \o [m \in 1..Cardinality(GroupIdx(g)) |->
                Chunk(FindingHeadingFmt, <<letter, ToString(m), Vulns[NthIndex(GroupIdx(g), m)].title>>)]

ExpectedSections ==
    ExpectedGroup("Critical", RedCircle, "C")
    \o ExpectedGroup("High", OrangeCircle, "H")
    \o ExpectedGroup("Medium", YellowCircle, "M")
    \o ExpectedGroup("Low", GreenCircle, "L")
    \o ExpectedGroup("Informational", BlueCircle, "I")

PositionOf(f) == CHOOSE p \in DOMAIN Markdown : Markdown[p].fmt = f

\* the chunks between the "Vulnerability Analysis" and the "Recommendations" headings
AnalysisBody ==
    SubSeq(Markdown, PositionOf("## Vulnerability Analysis\n\n") + 1, PositionOf("## Recommendations\n\n") - 1)

\* C10: the markdown shows every finding once, in the group of its severity (Informational for
\* every severity other than Critical, High, Medium, Low), groups in the order Critical, High,
\* Medium, Low, Informational, findings in input order within a group, and a group without
\* findings contributes no header and no text.
C10_SeverityGroups ==
    MarkdownRendered =>
        /\ SelectSeq(Markdown, LAMBDA c : c.fmt \in {SectionHeaderFmt, FindingHeadingFmt}) = ExpectedSections
        /\ Len(SelectSeq(AnalysisBody, LAMBDA c : c.fmt = "---\n\n")) = Len(Vulns)
        /\ Len(SelectSeq(AnalysisBody, LAMBDA c : c.fmt = "**Description:** {}\n\n")) = Len(Vulns)
        /\ AnalysisBody # <<>> => AnalysisBody[1].fmt = SectionHeaderFmt
        /\ Vulns = <<>> => AnalysisBody = <<>>

\* an unrecognized severity ahead of a Critical and an Informational finding; three groups empty
C10_Witness ==
    /\ MarkdownRendered
    /\ Len(Vulns) = 3
    /\ Vulns[1].severity = "critical"
    /\ Vulns[2].severity = "Critical"
    /\ Vulns[3].severity = "Informational"
    /\ Len(AnalysisBody) > 0

(***************************************************************************)
(* C11.                                                                    *)
(***************************************************************************)
\* HTML escaping of the markup-significant characters of a string
RECURSIVE EscapeStr(_)
EscapeStr(s) ==
    IF Len(s) = 0 THEN ""
    ELSE LET c == SubSeq(s, 1, 1)
         IN (CASE c = "&" -> "&amp;"
               [] c = "<" -> "&lt;"
               [] c = ">" -> "&gt;"
               [] OTHER -> c)
            \o EscapeStr(SubSeq(s, 2, Len(s)))

EscapeText(text) ==
    [p \in DOMAIN text |->
        Chunk(EscapeStr(text[p].fmt), [a \in DOMAIN text[p].args |-> EscapeStr(text[p].args[a])])]

HtmlRendered == Returned /\ format \in {"html", "pdf"} /\ Outcome.ok

\* C11 as stated: the hypertext rendering is the document shell around the escaped markdown
\* rendering of the same report, so no <, > or & of the markdown text is left unescaped in the
\* body, and the pdf rendering is the hypertext rendering.
C11_Original ==
    HtmlRendered =>
        /\ Outcome.val = <<Chunk(HtmlShellHead, <<Rep.metadata.contract_name>>)>>
                         \o EscapeText(generate_markdown_report(Rep).val)
                         \o <<Chunk(HtmlShellTail, <<>>)>>
        /\ format = "pdf" => Outcome.val = generate_html_report(Rep).val

(***************************************************************************)
(* The same call taken one statement at a time: load, assemble, render.    *)
(* Each ? of the source is a return out of the call.                       *)
(***************************************************************************)
StepInputs == {r \in MixFamily : Len(r.recommendations) = 1}

StepFiles ==
    {[readable |-> FALSE, parsed |-> None], [readable |-> TRUE, parsed |-> None]}
    \cup {[readable |-> TRUE, parsed |-> Some(r)] : r \in StepInputs}

InitSteps ==
    /\ file \in StepFiles
    /\ pc = "idle"
    /\ format = ""
    /\ include_summary = FALSE
    /\ report = None
    /\ outcome = None

\* mutation: the selector is validated on entry, before the input is loaded
BeginCallCheckingFormat(fmt, summary) ==
    /\ pc = "idle"
    /\ format' = fmt
    /\ include_summary' = summary
    /\ IF fmt \in {"markdown", "html", "json", "pdf"}
       THEN pc' = "load" /\ outcome' = outcome
       ELSE pc' = "returned" /\ outcome' = Some(Err(Chunk("Unsupported report format: {}", <<fmt>>)))
    /\ UNCHANGED <<file, report>>

\* entry of generate_comprehensive_report with its arguments
BeginCall(fmt, summary) ==
    /\ pc = "idle"
    /\ pc' = "load"
    /\ format' = fmt
    /\ include_summary' = summary
    /\ UNCHANGED <<file, report, outcome>>

\* let results = self.load_analysis_results(results_path)?;
LoadStep ==
    /\ pc = "load"
    /\ LET results == load_analysis_results(file)
       IN IF ~results.ok
          THEN pc' = "returned" /\ outcome' = Some(results)
          ELSE pc' = "assemble" /\ outcome' = outcome
    /\ UNCHANGED <<file, format, include_summary, report>>

\* let report = self.create_comprehensive_report(&results, include_summary)?;
AssembleStep ==
    /\ pc = "assemble"
    /\ pc' = "render"
    /\ \E uuid \in Uuids :
          report' = Some(create_comprehensive_report(load_analysis_results(file).val, include_summary, uuid))
    /\ UNCHANGED <<file, format, include_summary, outcome>>

\* match format { ... }
RenderStep ==
    /\ pc = "render"
    /\ pc' = "returned"
    /\ outcome' = Some(RenderFormat(format, Unwrap(report)))
    /\ UNCHANGED <<file, format, include_summary, report>>

NextSteps ==
    \/ \E fmt \in Formats, summary \in BOOLEAN : BeginCall(fmt, summary)
    \/ LoadStep
    \/ AssembleStep
    \/ RenderStep

SpecSteps == InitSteps /\ [][NextSteps]_vars

(***************************************************************************)
(* C12.                                                                    *)
(***************************************************************************)
PipelineMoves ==
    {<<"idle", "load">>, <<"load", "assemble">>, <<"load", "returned">>,
     <<"assemble", "render">>, <<"render", "returned">>}

\* the steps follow one another in the order load, assemble, render; only a failed load leaves
\* the pipeline early, the report is written by the assemble step alone and the caller is
\* handed something only when the call returns
PipelineOrder ==
    /\ pc' # pc => <<pc, pc'>> \in PipelineMoves
    /\ (pc = "load" /\ pc' = "returned") => ~load_analysis_results(file).ok
    /\ (pc = "load" /\ pc' = "assemble") => load_analysis_results(file).ok
    /\ report' # report => (pc = "assemble" /\ report = None)
    /\ outcome' # outcome => (pc' = "returned" /\ outcome = None)

\* what the caller holds: nothing before the return; after it the input error and no report when
\* the load failed, whatever the selector, and otherwise the whole result of the renderer chosen
\* by the selector
PipelineOutcome ==
    /\ IsSome(outcome) <=> Returned
    /\ IsSome(report) => (load_analysis_results(file).ok /\ pc \in {"render", "returned"})
    /\ (Returned /\ ~load_analysis_results(file).ok) =>
          /\ report = None
          /\ ~Outcome.ok
          /\ Outcome = load_analysis_results(file)
    /\ (Returned /\ load_analysis_results(file).ok) =>
          /\ IsSome(report)
          /\ Outcome = RenderFormat(format, Rep)

\* C12: the call runs load, assemble, render in that order and stops at the first failing step:
\* a failed load returns the input error without assembling or rendering, even with an
\* unsupported selector, and every call ends with either one complete artifact or an error.
C12_Pipeline == [][PipelineOrder]_vars /\ []PipelineOutcome

C12_Witness ==
    /\ Returned
    /\ ~file.readable
    /\ format = "xml"
    /\ report = None
    /\ ~Outcome.ok
    /\ Outcome.val.fmt = "No such file or directory (os error 2)"

(***************************************************************************)
(* C13.                                                                    *)
(***************************************************************************)
\* positions of the findings whose severity is none of the five recognized labels
UnrecognizedIdx == DOMAIN Vulns \ SeverityIdx(RecognizedSeverities)

InformationalHeaderPos ==
    {p \in DOMAIN Markdown : Markdown[p] = Chunk(SectionHeaderFmt, <<BlueCircle, "Informational">>)}

\* C13: a severity string outside the recognized labels is counted under itself in
\* severity_distribution, whose keys are exactly the severity strings of the input, and the
\* markdown shows the same finding in the Informational group.
C13_CoercionOnlyAtRender ==
    /\ Assembled =>
          /\ DOMAIN Analysis.severity_distribution = {Vulns[i].severity : i \in DOMAIN Vulns}
          /\ \A i \in UnrecognizedIdx :
                /\ Vulns[i].severity \in DOMAIN Analysis.severity_distribution
                /\ Analysis.severity_distribution[Vulns[i].severity]
                      = Cardinality(SeverityIdx({Vulns[i].severity}))
          /\ "Informational" \in DOMAIN Analysis.severity_distribution
                => SeverityIdx({"Informational"}) # {}
    /\ MarkdownRendered =>
          \A i \in UnrecognizedIdx :
             \E h \in InformationalHeaderPos :
                \E p \in DOMAIN Markdown :
                   /\ p > h
                   /\ Markdown[p].fmt = FindingHeadingFmt
                   /\ Markdown[p].args[1] = "I"
                   /\ Markdown[p].args[3] = Vulns[i].title

C13_Witness ==
    /\ MarkdownRendered
    /\ Cardinality(UnrecognizedIdx) = 2
    /\ SeverityIdx({"Low"}) # {}
    /\ "Informational" \notin DOMAIN Analysis.severity_distribution
    /\ Analysis.severity_distribution["critical"] = 2
    /\ InformationalHeaderPos # {}

(***************************************************************************)
(* C14.                                                                    *)
(***************************************************************************)
SeverityCountSum ==
    Summary.critical_findings + Summary.high_risk_findings
    + Summary.medium_risk_findings + Summary.low_risk_findings

\* C14: total_vulnerabilities is the number of findings of the vulnerability analysis with and
\* without the summary, and with the summary the four per-severity counts add up to at most the
\* total, to exactly the total iff every severity is Critical, High, Medium or Low.
C14_TotalVulnerabilities ==
    Assembled =>
        /\ Summary.total_vulnerabilities = Len(Analysis.vulnerabilities)
        /\ include_summary =>
              /\ SeverityCountSum <= Summary.total_vulnerabilities
              /\ SeverityCountSum = Summary.total_vulnerabilities
                    <=> \A i \in DOMAIN Vulns : Vulns[i].severity \in TriggerSeverities

C14_Witness ==
    /\ Assembled /\ ~include_summary
    /\ SeverityIdx({"Critical"}) # {}
    /\ Summary.critical_findings = 0
    /\ Summary.total_vulnerabilities = 3

(***************************************************************************)
(* C15.                                                                    *)
(***************************************************************************)
\* C15 as stated: no two records of the recommendation list have the same id.
C15_Original ==
    Assembled =>
        \A j, k \in DOMAIN Rep.recommendations :
            j # k => Rep.recommendations[j].id # Rep.recommendations[k].id

====
